---- MODULE Spec2Model ----
(***************************************************************************)
(* State-machine model of the taxi-trip pipeline: clean.py (quality filter *)
(* with drop-and-rename replace, verify_cleaning) and transform.py         *)
(* (batched UPDATE of six derived columns, verify_transformations), run    *)
(* against one DuckDB database that holds yellow_trips, green_trips and    *)
(* vehicle_emissions.  Every con.execute(...) is one autocommitted         *)
(* statement, hence one atomic step; a statement may also raise.           *)
(***************************************************************************)
EXTENDS Integers, Sequences, FiniteSets, TLC

(***************************************************************************)
(* Bounds of the model.                                                    *)
(***************************************************************************)
\* longest source table drawn by Init
MaxRows == 3
\* longest source table drawn by InitClean (boundary-value rows)
MaxCleanRows == 2
\* longest table drawn by InitChunk
MaxChunkRows == 7
\* batch sizes 1..MaxBatchSize stand for the code's batch_size
MaxBatchSize == 2
\* batch sizes tried by InitChunk
MaxChunkBatchSize == 4
\* rows drawn freely at the end of a table handed to the verifiers
MaxVerifyExtra == 1
\* rows of a table transformed with a malformed rate table
MaxRateRows == 2
\* rows of a table that holds trips of zero duration
MaxZeroRows == 2
\* rows of a table of trips picked up on calendar boundaries
MaxCalendarRows == 2

(***************************************************************************)
(* SQL values.  A nullable value is NULL or Val(v); a SQL boolean is a     *)
(* nullable BOOLEAN and follows three-valued logic.                        *)
(***************************************************************************)
NULL == <<>>
Val(v) == <<v>>
IsNull(x) == x = NULL
SqlTrue == Val(TRUE)
SqlFalse == Val(FALSE)

SqlGt(a, b) == IF IsNull(a) \/ IsNull(b) THEN NULL ELSE Val(a[1] > b[1])
SqlGe(a, b) == IF IsNull(a) \/ IsNull(b) THEN NULL ELSE Val(a[1] >= b[1])
SqlLt(a, b) == IF IsNull(a) \/ IsNull(b) THEN NULL ELSE Val(a[1] < b[1])
SqlLe(a, b) == IF IsNull(a) \/ IsNull(b) THEN NULL ELSE Val(a[1] <= b[1])
SqlEq(a, b) == IF IsNull(a) \/ IsNull(b) THEN NULL ELSE Val(a[1] = b[1])
SqlIsNotNull(a) == Val(~IsNull(a))
SqlAnd(p, q) ==
    IF p = SqlFalse \/ q = SqlFalse THEN SqlFalse
    ELSE IF IsNull(p) \/ IsNull(q) THEN NULL
    ELSE SqlTrue
SqlOr(p, q) ==
    IF p = SqlTrue \/ q = SqlTrue THEN SqlTrue
    ELSE IF IsNull(p) \/ IsNull(q) THEN NULL
    ELSE SqlFalse
\* a WHERE clause keeps the rows for which the condition is TRUE
Holds(p) == p = SqlTrue

(***************************************************************************)
(* Timestamps are whole seconds since 1970-01-01 00:00:00 (no time zone).  *)
(* The calendar fields are those of the proleptic Gregorian calendar, as   *)
(* EXTRACT computes them.                                                  *)
(***************************************************************************)
DaysFromCivil(y, m, d) ==
    LET yy  == IF m <= 2 THEN y - 1 ELSE y
        era == yy \div 400
        yoe == yy - era * 400
        mp  == IF m > 2 THEN m - 3 ELSE m + 9
        doy == (153 * mp + 2) \div 5 + d - 1
        doe == yoe * 365 + yoe \div 4 - yoe \div 100 + doy
    IN  era * 146097 + doe - 719468

\* the timestamp y-m-d h:mi:s
TS(y, m, d, h, mi, s) == DaysFromCivil(y, m, d) * 86400 + h * 3600 + mi * 60 + s

CivilFromDays(z) ==
    LET zz  == z + 719468
        era == zz \div 146097
        doe == zz - era * 146097
        yoe == (doe - doe \div 1460 + doe \div 36524 - doe \div 146096) \div 365
        doy == doe - (365 * yoe + yoe \div 4 - yoe \div 100)
        mp  == (5 * doy + 2) \div 153
        d   == doy - (153 * mp + 2) \div 5 + 1
        m   == IF mp < 10 THEN mp + 3 ELSE mp - 9
        y   == yoe + era * 400 + (IF m <= 2 THEN 1 ELSE 0)
    IN  [year |-> y, month |-> m, day |-> d]

DayNumber(t) == t \div 86400
YearOf(t) == CivilFromDays(DayNumber(t)).year
MonthOf(t) == CivilFromDays(DayNumber(t)).month
HourOf(t) == (t % 86400) \div 3600
\* 0 = Sunday; 1970-01-01 was a Thursday
DowOf(t) == (DayNumber(t) + 4) % 7

IsLeap(y) == (y % 4 = 0 /\ y % 100 # 0) \/ y % 400 = 0
\* ISO-8601 weeks of a year: 53 when Jan 1 is a Thursday, or a Wednesday in a leap year
WeeksInYear(y) ==
    LET jan1 == (DaysFromCivil(y, 1, 1) + 4) % 7
    IN  IF jan1 = 4 \/ (jan1 = 3 /\ IsLeap(y)) THEN 53 ELSE 52
\* ISO-8601 week number
WeekOf(t) ==
    LET y      == YearOf(t)
        doy    == DayNumber(t) - DaysFromCivil(y, 1, 1) + 1
        isodow == IF DowOf(t) = 0 THEN 7 ELSE DowOf(t)
        w      == (doy - isodow + 10) \div 7
    IN  IF w < 1 THEN WeeksInYear(y - 1)
        ELSE IF w > WeeksInYear(y) THEN 1
        ELSE w

ExtractYear(ts) == IF IsNull(ts) THEN NULL ELSE Val(YearOf(ts[1]))
ExtractMonth(ts) == IF IsNull(ts) THEN NULL ELSE Val(MonthOf(ts[1]))
ExtractHour(ts) == IF IsNull(ts) THEN NULL ELSE Val(HourOf(ts[1]))
\* ISODOW: Monday = 1 ... Sunday = 7
ExtractIsoDow(ts) == IF IsNull(ts) THEN NULL ELSE Val(IF DowOf(ts[1]) = 0 THEN 7 ELSE DowOf(ts[1]))
ExtractDow(ts) == IF IsNull(ts) THEN NULL ELSE Val(DowOf(ts[1]))
ExtractWeek(ts) == IF IsNull(ts) THEN NULL ELSE Val(WeekOf(ts[1]))
\* EXTRACT(EPOCH FROM (dropoff - pickup)): the interval in seconds
EpochDiff(dropoff, pickup) ==
    IF IsNull(dropoff) \/ IsNull(pickup) THEN NULL ELSE Val(dropoff[1] - pickup[1])

(***************************************************************************)
(* DOUBLE values are exact fractions <<n, d>> in lowest terms with d > 0;  *)
(* <<1, 0>>, <<-1, 0>> and <<0, 0>> stand for +inf, -inf and NaN.          *)
(***************************************************************************)
RECURSIVE Gcd(_, _)
Gcd(a, b) == IF b = 0 THEN a ELSE Gcd(b, a % b)
Abs(a) == IF a < 0 THEN -a ELSE a
Sign(a) == IF a < 0 THEN -1 ELSE IF a > 0 THEN 1 ELSE 0
Frac(n, d) ==
    IF d = 0 THEN <<Sign(n), 0>>
    ELSE LET g == Gcd(Abs(n), Abs(d))
         IN  <<(Sign(d) * n) \div g, Abs(d) \div g>>
\* x / y on DOUBLEs: a zero divisor gives NULL, or inf/NaN when the engine
\* runs with ieee_floating_point_ops
SqlDivide(n, d, ieee) ==
    IF d = 0 THEN (IF ieee THEN Val(Frac(n, 0)) ELSE NULL)
    ELSE Val(Frac(n, d))

(***************************************************************************)
(* Program constants of the quality filter.                                *)
(***************************************************************************)
MaxTripDistance == 100
MaxDurationSeconds == 86400
MinYear == 2015
MaxYear == 2024

(***************************************************************************)
(* Rows.  other_columns stands for every source column the filter does     *)
(* not read (fares, locations, ...); the last six fields are the derived   *)
(* columns, NULL while the table does not have them.                       *)
(***************************************************************************)
Categories == {"yellow", "green"}
Other(cat) == IF cat = "yellow" THEN "green" ELSE "yellow"
Trips(cat) == IF cat = "yellow" THEN "yellow_trips" ELSE "green_trips"
TripsTemp(cat) == IF cat = "yellow" THEN "yellow_trips_temp" ELSE "green_trips_temp"
\* the join key of the other category
VehicleTypeSwapped(cat) == IF cat = "yellow" THEN "green_taxi" ELSE "yellow_taxi"
VehicleType(cat) == IF cat = "yellow" THEN "yellow_taxi" ELSE "green_taxi"
TableNames == {Trips(c) : c \in Categories} \cup {TripsTemp(c) : c \in Categories}

Trip(passengers, distance, pickup, dropoff, other) ==
    [passenger_count |-> passengers, trip_distance |-> distance,
     pickup_datetime |-> pickup, dropoff_datetime |-> dropoff,
     other_columns |-> other,
     trip_co2_kgs |-> NULL, avg_mph |-> NULL, hour_of_day |-> NULL,
     day_of_week |-> NULL, week_of_year |-> NULL, month_of_year |-> NULL]

SourceColumns(r) ==
    <<r.passenger_count, r.trip_distance, r.pickup_datetime, r.dropoff_datetime, r.other_columns>>
DerivedColumns(r) ==
    <<r.trip_co2_kgs, r.avg_mph, r.hour_of_day, r.day_of_week, r.week_of_year, r.month_of_year>>

\* the cleaning query with trip_distance < 100 in place of <= 100
WhereCleanExclusive(r) ==
    LET secs == EpochDiff(r.dropoff_datetime, r.pickup_datetime)
        year == ExtractYear(r.pickup_datetime)
    IN  SqlAnd(SqlGt(r.passenger_count, Val(0)),
        SqlAnd(SqlGt(r.trip_distance, Val(0)),
        SqlAnd(SqlLt(r.trip_distance, Val(MaxTripDistance)),
        SqlAnd(SqlLe(secs, Val(MaxDurationSeconds)),
        SqlAnd(SqlGt(secs, Val(0)),
        SqlAnd(SqlGe(year, Val(MinYear)),
        SqlAnd(SqlLe(year, Val(MaxYear)),
        SqlAnd(SqlIsNotNull(r.pickup_datetime),
               SqlIsNotNull(r.dropoff_datetime)))))))))

\* the WHERE clause of the cleaning query
WhereClean(r) ==
    LET secs == EpochDiff(r.dropoff_datetime, r.pickup_datetime)
        year == ExtractYear(r.pickup_datetime)
    IN  SqlAnd(SqlGt(r.passenger_count, Val(0)),
        SqlAnd(SqlGt(r.trip_distance, Val(0)),
        SqlAnd(SqlLe(r.trip_distance, Val(MaxTripDistance)),
        SqlAnd(SqlLe(secs, Val(MaxDurationSeconds)),
        SqlAnd(SqlGt(secs, Val(0)),
        SqlAnd(SqlGe(year, Val(MinYear)),
        SqlAnd(SqlLe(year, Val(MaxYear)),
        SqlAnd(SqlIsNotNull(r.pickup_datetime),
               SqlIsNotNull(r.dropoff_datetime)))))))))

Range(s) == {s[k] : k \in 1..Len(s)}
\* every ordering of a finite set as a sequence without repetition
Orderings(S) ==
    {s \in [1..Cardinality(S) -> S] : \A a, b \in 1..Cardinality(S) : a # b => s[a] # s[b]}
\* SELECT * FROM t WHERE ...: the rows that pass, in table order
RECURSIVE SelectWhere(_)
SelectWhere(rows) ==
    IF rows = <<>> THEN <<>>
    ELSE IF Holds(WhereClean(Head(rows))) THEN <<Head(rows)>> \o SelectWhere(Tail(rows))
    ELSE SelectWhere(Tail(rows))
\* the cleaning query without DISTINCT
SelectAllWhere(rows) == {SelectWhere(rows)}

\* SELECT DISTINCT * FROM t WHERE ...: each distinct passing row once; the
\* engine does not promise any order of the result
SelectDistinctWhere(rows) == Orderings(Range(SelectWhere(rows)))

(***************************************************************************)
(* The derived columns: the SET clause of the batched UPDATE, for one row  *)
(* joined with one vehicle_emissions entry.                                *)
(***************************************************************************)
\* trip_co2_kgs added to the value the row already holds
Co2KgsAccumulating(r, ve) ==
    IF IsNull(r.trip_distance) \/ IsNull(ve.co2_grams_per_mile) THEN NULL
    ELSE IF IsNull(r.trip_co2_kgs)
         THEN Val(Frac(r.trip_distance[1] * ve.co2_grams_per_mile[1], 1000))
         ELSE Val(Frac(r.trip_co2_kgs[1][1] * 1000
                         + r.trip_distance[1] * ve.co2_grams_per_mile[1] * r.trip_co2_kgs[1][2],
                       1000 * r.trip_co2_kgs[1][2]))

Co2Kgs(r, ve) ==
    IF IsNull(r.trip_distance) \/ IsNull(ve.co2_grams_per_mile) THEN NULL
    ELSE Val(Frac(r.trip_distance[1] * ve.co2_grams_per_mile[1], 1000))
AvgMph(r, ieee) ==
    LET secs == EpochDiff(r.dropoff_datetime, r.pickup_datetime)
    IN  IF IsNull(r.trip_distance) \/ IsNull(secs) THEN NULL
        ELSE SqlDivide(r.trip_distance[1] * 3600, secs[1], ieee)
\* a SET clause that also assigns a source column
SetDerivedAndDistance(r, ve, ieee) ==
    [r EXCEPT !.trip_distance = Val(0),
              !.trip_co2_kgs = Co2Kgs(r, ve),
              !.avg_mph = AvgMph(r, ieee),
              !.hour_of_day = ExtractHour(r.pickup_datetime),
              !.day_of_week = ExtractDow(r.pickup_datetime),
              !.week_of_year = ExtractWeek(r.pickup_datetime),
              !.month_of_year = ExtractMonth(r.pickup_datetime)]
\* a SET clause of one column
SetDerivedCo2Only(r, ve, ieee) == [r EXCEPT !.trip_co2_kgs = Co2Kgs(r, ve)]
\* the SET clause of the UPDATE: six columns from the row and the joined entry
SetDerived(r, ve, ieee) ==
    [r EXCEPT !.trip_co2_kgs = Co2Kgs(r, ve),
              !.avg_mph = AvgMph(r, ieee),
              !.hour_of_day = ExtractHour(r.pickup_datetime),
              !.day_of_week = ExtractDow(r.pickup_datetime),
              !.week_of_year = ExtractWeek(r.pickup_datetime),
              !.month_of_year = ExtractMonth(r.pickup_datetime)]

\* batches rounded down
BatchesFloor(n, size) == n \div size

\* batches = (total_rows + batch_size - 1) // batch_size
Batches(n, size) == (n + size - 1) \div size
\* an UPDATE without the rowid filter
WindowAll(n, size, offset) == 1..n
\* a window that starts one row early
WindowOverlapping(n, size, offset) == {k \in 1..n : offset <= k /\ k <= offset + size}

\* windows taken from the end of the table backwards (ORDER BY rowid DESC)
WindowFromEnd(n, size, offset) == {k \in 1..n : n - offset - size < k /\ k <= n - offset}

\* the rowids of SELECT rowid ... ORDER BY rowid LIMIT size OFFSET offset,
\* as positions 1..n of the table (rowid = position - 1)
Window(n, size, offset) == {k \in 1..n : offset < k /\ k <= offset + size}
\* the vehicle_emissions entries the join condition selects
RateEntries(ves, cat) == {e \in Range(ves) : Holds(SqlEq(Val(e.vehicle_type), Val(VehicleType(cat))))}

(***************************************************************************)
(* State.                                                                  *)
(***************************************************************************)
VARIABLES
    db,                      \* table name -> [present, derived, rows]
    vehicle_emissions,       \* rows of the vehicle_emissions table
    batch_size,              \* batch_size of the transformation loop
    ieee_floating_point_ops, \* the engine's division-by-zero setting
    script,                  \* the script that is running, or "none"
    pc,                      \* the statement the script executes next
    cat,                     \* the category whose function is running
    initial_count, final_count,      \* locals of clean_*_trips
    total_rows, batches, i, count,   \* locals of transform_*_trips
    progress,                \* the batch lines printed by the running function
    report,                  \* what the last verify_* call computed and returned
    last,                    \* how the last script run ended and where (NoRun while one runs)
    source,                  \* history: db as load.py left it
    at_start,                \* history: db when the running (or last) script started
    updates                  \* history: per category, the window and the rows written
                             \* by each UPDATE of the running (or last) transform.py

vars == <<db, vehicle_emissions, batch_size, ieee_floating_point_ops, script, pc, cat,
          initial_count, final_count, total_rows, batches, i, count, progress,
          report, last, source, at_start, updates>>
config == <<vehicle_emissions, batch_size, ieee_floating_point_ops, source>>
cleanLocals == <<initial_count, final_count>>
transformLocals == <<total_rows, batches, i, count, progress>>

Absent == [present |-> FALSE, derived |-> FALSE, rows |-> <<>>]
Loaded(rows) == [present |-> TRUE, derived |-> FALSE, rows |-> rows]
NoReport == [by |-> "none", checks |-> <<>>, returned |-> NULL]
NoUpdates == [c \in Categories |-> <<>>]

NoRun == [script |-> "none", result |-> "none", pc |-> "idle", cat |-> "yellow", i |-> 0]

\* the script returns: the connection is closed, the locals are gone
Ended(result) ==
    /\ last' = [script |-> script, result |-> result, pc |-> pc, cat |-> cat, i |-> i]
    /\ script' = "none"
    /\ pc' = "idle"
    /\ cat' = "yellow"
    /\ initial_count' = 0 /\ final_count' = 0
    /\ total_rows' = 0 /\ batches' = 0 /\ i' = 0 /\ count' = 0
    /\ progress' = <<>>

(***************************************************************************)
(* clean.py                                                                *)
(***************************************************************************)
\* python clean.py: connect and call clean_yellow_trips
StartClean ==
    /\ script = "none"
    \* the operator runs the scripts in pipeline order: clean.py once, first
    /\ last = NoRun
    /\ script' = "clean"
    /\ pc' = "clean_count"
    /\ cat' = "yellow"
    /\ at_start' = db
    /\ report' = NoReport
    /\ UNCHANGED <<db, config, cleanLocals, transformLocals, last, updates>>

\* initial_count = SELECT COUNT(*) FROM <cat>_trips
CleanInitialCount ==
    /\ script = "clean" /\ pc = "clean_count"
    /\ db[Trips(cat)].present
    /\ initial_count' = Len(db[Trips(cat)].rows)
    /\ pc' = "clean_create"
    /\ UNCHANGED <<db, config, script, cat, final_count, transformLocals, report, last, at_start, updates>>

\* CREATE OR REPLACE TABLE <cat>_trips_temp AS SELECT DISTINCT * FROM <cat>_trips WHERE ...
CleanCreateTemp ==
    /\ script = "clean" /\ pc = "clean_create"
    /\ db[Trips(cat)].present
    /\ \E result \in SelectDistinctWhere(db[Trips(cat)].rows) :
          db' = [db EXCEPT ![TripsTemp(cat)] =
                    [present |-> TRUE, derived |-> db[Trips(cat)].derived, rows |-> result]]
    /\ pc' = "clean_drop"
    /\ UNCHANGED <<config, script, cat, cleanLocals, transformLocals, report, last, at_start, updates>>

\* DROP TABLE <cat>_trips
CleanDrop ==
    /\ script = "clean" /\ pc = "clean_drop"
    /\ db[Trips(cat)].present
    /\ db' = [db EXCEPT ![Trips(cat)] = Absent]
    /\ pc' = "clean_rename"
    /\ UNCHANGED <<config, script, cat, cleanLocals, transformLocals, report, last, at_start, updates>>

\* ALTER TABLE <cat>_trips_temp RENAME TO <cat>_trips
CleanRename ==
    /\ script = "clean" /\ pc = "clean_rename"
    /\ db[TripsTemp(cat)].present
    /\ ~db[Trips(cat)].present
    /\ db' = [db EXCEPT ![Trips(cat)] = db[TripsTemp(cat)], ![TripsTemp(cat)] = Absent]
    /\ pc' = "clean_final"
    /\ UNCHANGED <<config, script, cat, cleanLocals, transformLocals, report, last, at_start, updates>>

\* final_count = SELECT COUNT(*) FROM <cat>_trips; the function returns and
\* clean_green_trips, then verify_cleaning, is called
CleanFinalCount ==
    /\ script = "clean" /\ pc = "clean_final"
    /\ db[Trips(cat)].present
    /\ final_count' = Len(db[Trips(cat)].rows)
    /\ IF cat = "yellow"
          THEN cat' = "green" /\ pc' = "clean_count"
          ELSE cat' = cat /\ pc' = "verify_cleaning"
    /\ UNCHANGED <<db, config, script, initial_count, transformLocals, report, last, at_start, updates>>

CountWhere(rows, P(_)) == Cardinality({k \in 1..Len(rows) : P(rows[k])})
\* the checks dictionary of verify_cleaning for one table
CleaningChecks(rows) ==
    [zero_passengers |-> CountWhere(rows, LAMBDA r : Holds(SqlEq(r.passenger_count, Val(0)))),
     zero_distance   |-> CountWhere(rows, LAMBDA r : Holds(SqlEq(r.trip_distance, Val(0)))),
     over_100_miles  |-> CountWhere(rows, LAMBDA r : Holds(SqlGt(r.trip_distance, Val(100)))),
     over_24_hours   |-> CountWhere(rows, LAMBDA r :
                            Holds(SqlGt(EpochDiff(r.dropoff_datetime, r.pickup_datetime), Val(86400)))),
     duplicates      |-> Len(rows) - Cardinality(Range(rows)),
     outside_years   |-> CountWhere(rows, LAMBDA r :
                            Holds(SqlOr(SqlLt(ExtractYear(r.pickup_datetime), Val(2015)),
                                        SqlGt(ExtractYear(r.pickup_datetime), Val(2024)))))]
\* the sum without the distance check
ViolationsWithoutDistance(c) ==
    c.zero_passengers + c.over_100_miles + c.over_24_hours + c.duplicates + c.outside_years
Violations(c) ==
    c.zero_passengers + c.zero_distance + c.over_100_miles + c.over_24_hours
      + c.duplicates + c.outside_years

\* verify_cleaning(con), then the script ends
\* a verifier that empties the tables it has counted
VerifyCleaningDeleting ==
    /\ script = "clean" /\ pc = "verify_cleaning"
    /\ \A c \in Categories : db[Trips(c)].present
    /\ LET checks == [c \in Categories |-> CleaningChecks(db[Trips(c)].rows)]
           all_clean == Violations(checks["yellow"]) + Violations(checks["green"]) = 0
       IN  report' = [by |-> "verify_cleaning", checks |-> checks, returned |-> Val(all_clean)]
    /\ db' = [t \in TableNames |-> IF db[t].present THEN [db[t] EXCEPT !.rows = <<>>] ELSE db[t]]
    /\ Ended("completed")
    /\ UNCHANGED <<config, at_start, updates>>

VerifyCleaning ==
    /\ script = "clean" /\ pc = "verify_cleaning"
    /\ \A c \in Categories : db[Trips(c)].present
    /\ LET checks == [c \in Categories |-> CleaningChecks(db[Trips(c)].rows)]
           all_clean == Violations(checks["yellow"]) + Violations(checks["green"]) = 0
       IN  report' = [by |-> "verify_cleaning", checks |-> checks, returned |-> Val(all_clean)]
    /\ Ended("completed")
    /\ UNCHANGED <<db, config, at_start, updates>>

(***************************************************************************)
(* transform.py                                                            *)
(***************************************************************************)
\* python transform.py: transform_data() connects, configures the engine
\* and calls transform_yellow_trips
StartTransform ==
    /\ script = "none"
    \* the operator does not go on to transform.py after a failed clean.py
    /\ last.script = "clean" => last.result = "completed"
    /\ script' = "transform"
    /\ pc' = "add_columns"
    /\ cat' = "yellow"
    /\ at_start' = db
    /\ updates' = NoUpdates
    /\ report' = NoReport
    /\ last' = NoRun
    /\ UNCHANGED <<db, config, cleanLocals, transformLocals>>

\* the six ALTER TABLE <cat>_trips ADD COLUMN IF NOT EXISTS statements
\* (one step: a new column is NULL in every row, as an absent one is here)
AddColumns ==
    /\ script = "transform" /\ pc = "add_columns"
    /\ db[Trips(cat)].present
    /\ db' = [db EXCEPT ![Trips(cat)].derived = TRUE]
    /\ pc' = "count_rows"
    /\ UNCHANGED <<config, script, cat, cleanLocals, transformLocals, report, last, at_start, updates>>

\* total_rows = SELECT COUNT(*) ...; batches = ...; the loop starts at i = 0
CountRows ==
    /\ script = "transform" /\ pc = "count_rows"
    /\ db[Trips(cat)].present
    /\ LET n == Len(db[Trips(cat)].rows)
       IN  /\ total_rows' = n
           /\ batches' = Batches(n, batch_size)
           /\ pc' = IF 0 < Batches(n, batch_size) THEN "update_batch" ELSE "count_transformed"
           /\ updates' = [updates EXCEPT ![cat] = <<>>]
    /\ i' = 0
    /\ progress' = <<>>
    /\ UNCHANGED <<db, config, script, cat, cleanLocals, count, report, last, at_start>>

\* an UPDATE that skips the rows whose trip_co2_kgs is already set
TargetOnlyNull(rows, window, entries) ==
    IF entries = {} THEN {} ELSE {k \in window : IsNull(rows[k].trip_co2_kgs)}

\* the rows one UPDATE writes: the rows of the window that join an entry
Target(rows, window, entries) == IF entries = {} THEN {} ELSE window

\* an UPDATE that sets the derived columns of the rows outside the window to NULL
UpdateRowsClearing(rows, window, pick, ieee) ==
    [k \in 1..Len(rows) |->
        IF k \in window THEN SetDerived(rows[k], pick[k], ieee)
        ELSE [rows[k] EXCEPT !.trip_co2_kgs = NULL, !.avg_mph = NULL, !.hour_of_day = NULL,
                             !.day_of_week = NULL, !.week_of_year = NULL, !.month_of_year = NULL]]

\* the rows of the table after one UPDATE ... FROM vehicle_emissions ve
\* WHERE ve.vehicle_type = ... AND rowid IN (window): pick[k] is the joined
\* entry the engine uses for row k
UpdateRows(rows, window, pick, ieee) ==
    [k \in 1..Len(rows) |-> IF k \in window THEN SetDerived(rows[k], pick[k], ieee) ELSE rows[k]]

\* one pass of the for loop: print the batch line and execute the UPDATE
UpdateBatch ==
    /\ script = "transform" /\ pc = "update_batch"
    /\ i < batches
    /\ db[Trips(cat)].present /\ db[Trips(cat)].derived
    /\ LET rows    == db[Trips(cat)].rows
           offset  == i * batch_size
           window  == Window(Len(rows), batch_size, offset)
           entries == RateEntries(vehicle_emissions, cat)
           \* a row without a joined entry is not updated; of several joined
           \* entries the engine uses one, and does not say which
           target  == Target(rows, window, entries)
       IN  /\ \E pick \in [target -> entries] :
                 db' = [db EXCEPT ![Trips(cat)].rows = UpdateRows(rows, target, pick, ieee_floating_point_ops)]
           /\ updates' = [updates EXCEPT ![cat] = Append(@, [window |-> window, written |-> target])]
    /\ progress' = Append(progress, [batch |-> i + 1, of |-> batches, offset |-> i * batch_size])
    /\ i' = i + 1
    /\ pc' = IF i + 1 < batches THEN "update_batch" ELSE "count_transformed"
    /\ UNCHANGED <<config, script, cat, cleanLocals, total_rows, batches, count, report, last, at_start>>

\* the count of transform_yellow_trips followed at once by the verifier,
\* transform_green_trips left out
CountTransformedThenVerify ==
    /\ script = "transform" /\ pc = "count_transformed"
    /\ db[Trips(cat)].present /\ db[Trips(cat)].derived
    /\ count' = CountWhere(db[Trips(cat)].rows, LAMBDA r : ~IsNull(r.trip_co2_kgs))
    /\ pc' = "verify_transformations"
    /\ UNCHANGED <<db, config, script, cat, cleanLocals, total_rows, batches, i, progress, report, last, at_start, updates>>

\* count = SELECT COUNT(*) ... WHERE trip_co2_kgs IS NOT NULL; the function
\* returns and transform_green_trips, then verify_transformations, is called
CountTransformed ==
    /\ script = "transform" /\ pc = "count_transformed"
    /\ db[Trips(cat)].present /\ db[Trips(cat)].derived
    /\ count' = CountWhere(db[Trips(cat)].rows, LAMBDA r : ~IsNull(r.trip_co2_kgs))
    /\ IF cat = "yellow"
          THEN cat' = "green" /\ pc' = "add_columns"
          ELSE cat' = cat /\ pc' = "verify_transformations"
    /\ UNCHANGED <<db, config, script, cleanLocals, total_rows, batches, i, progress, report, last, at_start, updates>>

NonNull(rows, F(_)) == {F(rows[k])[1] : k \in {j \in 1..Len(rows) : ~IsNull(F(rows[j]))}}
SqlMin(S) == IF S = {} THEN NULL ELSE Val(CHOOSE x \in S : \A y \in S : x <= y)
SqlMax(S) == IF S = {} THEN NULL ELSE Val(CHOOSE x \in S : \A y \in S : x >= y)
\* the NULL counts and the hour range verify_transformations reads for one table
TransformChecks(rows) ==
    [null_co2   |-> CountWhere(rows, LAMBDA r : IsNull(r.trip_co2_kgs)),
     null_mph   |-> CountWhere(rows, LAMBDA r : IsNull(r.avg_mph)),
     null_hour  |-> CountWhere(rows, LAMBDA r : IsNull(r.hour_of_day)),
     null_dow   |-> CountWhere(rows, LAMBDA r : IsNull(r.day_of_week)),
     null_week  |-> CountWhere(rows, LAMBDA r : IsNull(r.week_of_year)),
     null_month |-> CountWhere(rows, LAMBDA r : IsNull(r.month_of_year)),
     min_hour   |-> SqlMin(NonNull(rows, LAMBDA r : r.hour_of_day)),
     max_hour   |-> SqlMax(NonNull(rows, LAMBDA r : r.hour_of_day))]
TotalNulls(c) ==
    c.null_co2 + c.null_mph + c.null_hour + c.null_dow + c.null_week + c.null_month
\* AVG(trip_co2_kgs) or AVG(avg_mph) is NULL (no non-NULL value to average):
\* formatting it with :.3f / :.1f raises TypeError
StatsUnprintable(rows) ==
    \/ \A k \in 1..Len(rows) : IsNull(rows[k].trip_co2_kgs)
    \/ \A k \in 1..Len(rows) : IsNull(rows[k].avg_mph)
\* verify_transformations cannot return: a table or a derived column is
\* missing, or an average is None
VerifyTransformationsRaises ==
    \E c \in Categories :
        \/ ~db[Trips(c)].present
        \/ ~db[Trips(c)].derived
        \/ StatsUnprintable(db[Trips(c)].rows)

\* verify_transformations(con), then the script ends
VerifyTransformations ==
    /\ script = "transform" /\ pc = "verify_transformations"
    /\ ~VerifyTransformationsRaises
    /\ LET checks == [c \in Categories |-> TransformChecks(db[Trips(c)].rows)]
           ok == /\ TotalNulls(checks["yellow"]) + TotalNulls(checks["green"]) = 0
                 /\ \A c \in Categories :
                       checks[c].min_hour[1] >= 0 /\ checks[c].max_hour[1] <= 23
       IN  report' = [by |-> "verify_transformations", checks |-> checks, returned |-> Val(ok)]
    /\ Ended("completed")
    /\ UNCHANGED <<db, config, at_start, updates>>

\* verify_transformations(con) raises TypeError where it formats an average
\* that is None; transform_data logs and re-raises it, and the script ends
VerifyTransformationsTypeError ==
    /\ script = "transform" /\ pc = "verify_transformations"
    /\ \A c \in Categories : db[Trips(c)].present /\ db[Trips(c)].derived
    /\ \E c \in Categories : StatsUnprintable(db[Trips(c)].rows)
    /\ report' = NoReport
    /\ Ended("type_error")
    /\ UNCHANGED <<db, config, at_start, updates>>

(***************************************************************************)
(* Errors.  A statement that raises changes nothing in the database; the   *)
(* exception reaches the script's except block, which logs and re-raises,  *)
(* and the script ends.  This covers a statement on a missing table, an    *)
(* I/O error and an interrupt between two statements.                      *)
(***************************************************************************)
Raise ==
    /\ script # "none"
    /\ report' = NoReport
    /\ Ended("failed")
    /\ UNCHANGED <<db, config, at_start, updates>>

(***************************************************************************)
(* Source data.                                                            *)
(***************************************************************************)
Noon == TS(2019, 6, 15, 8, 30, 0)
\* ordinary valid trips; RowF differs from RowE only in a column the filter does not read
RowE == Trip(Val(1), Val(10), Val(Noon), Val(Noon + 1800), 0)
RowF == Trip(Val(1), Val(10), Val(Noon), Val(Noon + 1800), 1)
\* a valid trip on every inclusive boundary: 100 miles, 86400 seconds, first second of 2015
RowG == Trip(Val(2), Val(100), Val(TS(2015, 1, 1, 0, 0, 0)), Val(TS(2015, 1, 2, 0, 0, 0)), 0)
\* a valid trip in the last second of 2024
RowH == Trip(Val(1), Val(1), Val(TS(2024, 12, 31, 23, 59, 59)), Val(TS(2025, 1, 1, 0, 0, 0)), 0)
\* valid trips picked up at midnight of a Sunday and in an ISO week 53
RowSunday == Trip(Val(1), Val(5), Val(TS(2023, 1, 1, 0, 0, 0)), Val(TS(2023, 1, 1, 0, 20, 0)), 0)
RowWeek53 == Trip(Val(1), Val(5), Val(TS(2020, 12, 31, 12, 0, 0)), Val(TS(2020, 12, 31, 12, 20, 0)), 0)
\* trips that violate exactly one predicate
RowA == Trip(Val(0), Val(10), Val(Noon), Val(Noon + 1800), 0)
RowNoPassengers == Trip(NULL, Val(10), Val(Noon), Val(Noon + 1800), 0)
RowB == Trip(Val(1), Val(150), Val(Noon), Val(Noon + 1800), 0)
RowOver100 == Trip(Val(1), Val(101), Val(Noon), Val(Noon + 1800), 0)
RowZeroDistance == Trip(Val(1), Val(0), Val(Noon), Val(Noon + 1800), 0)
RowNoDistance == Trip(Val(1), NULL, Val(Noon), Val(Noon + 1800), 0)
RowC == Trip(Val(1), Val(10), Val(Noon), Val(Noon + 90000), 0)
RowOver24h == Trip(Val(1), Val(10), Val(Noon), Val(Noon + 86401), 0)
RowZ == Trip(Val(1), Val(10), Val(Noon), Val(Noon), 0)
RowBackwards == Trip(Val(1), Val(10), Val(Noon), Val(Noon - 60), 0)
RowD == Trip(Val(1), Val(10), Val(TS(2013, 6, 15, 8, 30, 0)), Val(TS(2013, 6, 15, 9, 0, 0)), 0)
Row2014 == Trip(Val(1), Val(10), Val(TS(2014, 12, 31, 23, 59, 59)), Val(TS(2015, 1, 1, 0, 29, 59)), 0)
Row2025 == Trip(Val(1), Val(10), Val(TS(2025, 1, 1, 0, 0, 0)), Val(TS(2025, 1, 1, 0, 30, 0)), 0)
RowNoPickup == Trip(Val(1), Val(10), NULL, Val(Noon + 1800), 0)
RowNoDropoff == Trip(Val(1), Val(10), Val(Noon), NULL, 0)

ValidRows == {RowE, RowF, RowG, RowH}
InvalidRows == {RowA, RowNoPassengers, RowB, RowOver100, RowZeroDistance, RowNoDistance,
                RowC, RowOver24h, RowZ, RowBackwards, RowD, Row2014, Row2025,
                RowNoPickup, RowNoDropoff}
\* the end-to-end scenario: A, B, C, D each break one rule, E and F' are exact duplicates
ScenarioTable == <<RowA, RowB, RowC, RowD, RowE, RowE>>

SeqsUpTo(S, n) == UNION {[1..k -> S] : k \in 0..n}

Rate(type, grams) == [vehicle_type |-> type, co2_grams_per_mile |-> Val(grams)]
\* data/vehicle_emissions.csv as loaded: one entry per vehicle type
GoodRates == <<Rate("yellow_taxi", 400), Rate("green_taxi", 300)>>
\* a rate table without an entry for the category, and one with two
MissingRate(c) == <<Rate(VehicleType(Other(c)), 300)>>
DuplicateRate(c) == <<Rate(VehicleType(c), 400), Rate(VehicleType(c), 500), Rate(VehicleType(Other(c)), 300)>>

InitProgram ==
    /\ script = "none" /\ pc = "idle" /\ cat = "yellow"
    /\ initial_count = 0 /\ final_count = 0
    /\ total_rows = 0 /\ batches = 0 /\ i = 0 /\ count = 0
    /\ progress = <<>>
    /\ report = NoReport
    /\ last = NoRun
    /\ updates = NoUpdates
    /\ source = db
    /\ at_start = db

\* the database after load.py: both trip tables loaded, no derived columns
Init ==
    /\ \E c \in Categories, rows \in SeqsUpTo({RowE, RowF, RowG, RowB}, MaxRows) :
          db = [n \in TableNames |->
                  IF n = Trips(c) THEN Loaded(rows)
                  ELSE IF n = Trips(Other(c)) THEN Loaded(<<RowE, RowB>>)
                  ELSE Absent]
    /\ vehicle_emissions = GoodRates
    /\ batch_size \in 1..MaxBatchSize
    /\ ieee_floating_point_ops = TRUE
    /\ InitProgram

Next ==
    \/ StartClean
    \/ CleanInitialCount
    \/ CleanCreateTemp
    \/ CleanDrop
    \/ CleanRename
    \/ CleanFinalCount
    \/ VerifyCleaning
    \/ StartTransform
    \/ AddColumns
    \/ CountRows
    \/ UpdateBatch
    \/ CountTransformed
    \/ VerifyTransformations
    \/ VerifyTransformationsTypeError
    \/ Raise

Spec == Init /\ [][Next]_vars

(***************************************************************************)
(* clean.py alone, on tables of boundary-value rows.                       *)
(***************************************************************************)
InitClean ==
    /\ \E c \in Categories,
          rows \in SeqsUpTo(ValidRows \cup InvalidRows, MaxCleanRows) \cup {ScenarioTable} :
          db = [n \in TableNames |->
                  IF n = Trips(c) THEN Loaded(rows)
                  ELSE IF n = Trips(Other(c)) THEN Loaded(<<RowE, RowB>>)
                  ELSE Absent]
    /\ vehicle_emissions = GoodRates
    /\ batch_size = 1
    /\ ieee_floating_point_ops = TRUE
    /\ InitProgram

NextClean ==
    \/ StartClean
    \/ CleanInitialCount
    \/ CleanCreateTemp
    \/ CleanDrop
    \/ CleanRename
    \/ CleanFinalCount
    \/ VerifyCleaning
    \/ Raise

SpecClean == InitClean /\ [][NextClean]_vars

(***************************************************************************)
(* transform.py alone, on longer tables and more batch sizes.              *)
(***************************************************************************)
\* n distinct valid trips
NumberedTrips(n) == [k \in 1..n |-> [RowE EXCEPT !.other_columns = k]]

InitChunk ==
    /\ \E c \in Categories, n \in 0..MaxChunkRows :
          db = [t \in TableNames |->
                  IF t = Trips(c) THEN Loaded(NumberedTrips(n))
                  ELSE IF t = Trips(Other(c)) THEN Loaded(<<RowE>>)
                  ELSE Absent]
    /\ vehicle_emissions = GoodRates
    /\ batch_size \in 1..MaxChunkBatchSize
    /\ ieee_floating_point_ops = TRUE
    /\ InitProgram

NextTransform ==
    \/ StartTransform
    \/ AddColumns
    \/ CountRows
    \/ UpdateBatch
    \/ CountTransformed
    \/ VerifyTransformations
    \/ VerifyTransformationsTypeError
    \/ Raise

SpecChunk == InitChunk /\ [][NextTransform]_vars

(***************************************************************************)
(* transform.py on a vehicle_emissions table that lacks the category's     *)
(* entry or holds two entries for it.                                      *)
(***************************************************************************)
InitRates ==
    /\ \E c \in Categories, rows \in SeqsUpTo({RowE, RowG}, MaxRateRows) :
          /\ db = [t \in TableNames |->
                    IF t = Trips(c) THEN Loaded(rows)
                    ELSE IF t = Trips(Other(c)) THEN Loaded(<<RowE>>)
                    ELSE Absent]
          /\ vehicle_emissions \in {MissingRate(c), DuplicateRate(c)}
    /\ batch_size \in 1..MaxBatchSize
    /\ ieee_floating_point_ops = TRUE
    /\ InitProgram

SpecRates == InitRates /\ [][NextTransform]_vars

(***************************************************************************)
(* transform.py on tables that were not cleaned and hold trips whose       *)
(* dropoff time equals the pickup time, on an engine with either setting   *)
(* of ieee_floating_point_ops (its default differs between engine          *)
(* versions).                                                              *)
(***************************************************************************)
InitZero ==
    /\ \E c \in Categories, rows \in SeqsUpTo({RowE, RowZ}, MaxZeroRows) :
          db = [t \in TableNames |->
                  IF t = Trips(c) THEN Loaded(rows)
                  ELSE IF t = Trips(Other(c)) THEN Loaded(<<RowE>>)
                  ELSE Absent]
    /\ vehicle_emissions = GoodRates
    /\ batch_size \in 1..MaxBatchSize
    /\ ieee_floating_point_ops \in BOOLEAN
    /\ InitProgram

SpecZero == InitZero /\ [][NextTransform]_vars

(***************************************************************************)
(* transform.py on trips picked up on calendar boundaries: a Sunday        *)
(* midnight, the last second of a year, an ISO week 53.                    *)
(***************************************************************************)
InitCalendar ==
    /\ \E c \in Categories, rows \in SeqsUpTo({RowE, RowH, RowSunday, RowWeek53}, MaxCalendarRows) :
          db = [t \in TableNames |->
                  IF t = Trips(c) THEN Loaded(rows)
                  ELSE IF t = Trips(Other(c)) THEN Loaded(<<RowSunday, RowH>>)
                  ELSE Absent]
    /\ vehicle_emissions = GoodRates
    /\ batch_size \in 1..MaxBatchSize
    /\ ieee_floating_point_ops = TRUE
    /\ InitProgram

SpecCalendar == InitCalendar /\ [][NextTransform]_vars

(***************************************************************************)
(* The verifiers alone: verify_cleaning(con) and verify_transformations(con)*)
(* called on the database as it is, whatever state its tables are in.       *)
(***************************************************************************)
\* the rows of a table after a complete transformation with the loaded rates
AsTransformed(rows, c) ==
    [k \in 1..Len(rows) |->
        SetDerived(rows[k], CHOOSE e \in RateEntries(GoodRates, c) : TRUE, TRUE)]
\* a transformed table as it is, or with one value of one row overwritten
\* after the transformation
Overwritten(rows) ==
    {rows}
      \cup {[rows EXCEPT ![k].trip_distance = Val(0)] : k \in 1..Len(rows)}
      \cup {[rows EXCEPT ![k].hour_of_day = Val(h)] : k \in 1..Len(rows), h \in {-1, 24}}
      \cup {[rows EXCEPT ![k].trip_co2_kgs = NULL] : k \in 1..Len(rows)}
\* the states of a trip table that holds these rows: as loaded, with the
\* derived columns added and still NULL, and transformed
TableStates(rows, c) ==
    {Loaded(rows), [Loaded(rows) EXCEPT !.derived = TRUE]}
      \cup {[present |-> TRUE, derived |-> TRUE, rows |-> x] : x \in Overwritten(AsTransformed(rows, c))}

InitVerify ==
    /\ \E c \in Categories,
          base \in {<<>>, <<RowE>>, <<RowE, RowG>>},
          extra \in SeqsUpTo({RowE, RowG} \cup InvalidRows, MaxVerifyExtra) :
          \E t \in TableStates(base \o extra, c) :
             db = [n \in TableNames |->
                     IF n = Trips(c) THEN t
                     ELSE IF n = Trips(Other(c))
                          THEN [present |-> TRUE, derived |-> TRUE,
                                rows |-> AsTransformed(<<RowE>>, Other(c))]
                     ELSE Absent]
    /\ vehicle_emissions = GoodRates
    /\ batch_size = 1
    /\ ieee_floating_point_ops = TRUE
    /\ InitProgram

\* a caller connects and calls verify_cleaning(con)
CallVerifyCleaning ==
    /\ script = "none" /\ last = NoRun
    /\ script' = "clean"
    /\ pc' = "verify_cleaning"
    /\ cat' = "green"
    /\ at_start' = db
    /\ report' = NoReport
    /\ UNCHANGED <<db, config, cleanLocals, transformLocals, last, updates>>

\* a caller connects and calls verify_transformations(con)
CallVerifyTransformations ==
    /\ script = "none" /\ last = NoRun
    /\ script' = "transform"
    /\ pc' = "verify_transformations"
    /\ cat' = "green"
    /\ at_start' = db
    /\ report' = NoReport
    /\ UNCHANGED <<db, config, cleanLocals, transformLocals, last, updates>>

NextVerify ==
    \/ CallVerifyCleaning
    \/ VerifyCleaning
    \/ CallVerifyTransformations
    \/ VerifyTransformations
    \/ VerifyTransformationsTypeError
    \/ Raise

SpecVerify == InitVerify /\ [][NextVerify]_vars

(***************************************************************************)
(* Properties of clean.py                                                  *)
(***************************************************************************)
\* predicates 1-6 of the quality filter, as the design states them
Predicates1to6(r) ==
    /\ r.passenger_count # NULL /\ r.passenger_count[1] > 0
    /\ r.trip_distance # NULL /\ r.trip_distance[1] > 0 /\ r.trip_distance[1] <= 100
    /\ r.pickup_datetime # NULL /\ r.dropoff_datetime # NULL
    /\ r.dropoff_datetime[1] - r.pickup_datetime[1] > 0
    /\ r.dropoff_datetime[1] - r.pickup_datetime[1] <= 86400
    /\ YearOf(r.pickup_datetime[1]) >= 2015
    /\ YearOf(r.pickup_datetime[1]) <= 2024

\* clean_<c>_trips has returned in the running, or last, clean.py
CleanReturned(c) ==
    \/ script = "clean" /\ (pc = "verify_cleaning" \/ (c = "yellow" /\ cat = "green"))
    \/ script = "none" /\ last.script = "clean"
         /\ (last.result = "completed" \/ last.pc = "verify_cleaning" \/ (c = "yellow" /\ last.cat = "green"))

RowsOf(c) == db[Trips(c)].rows
RowsAtStart(c) == at_start[Trips(c)].rows

\* C1: once clean_yellow_trips / clean_green_trips has returned, every row of
\* the table satisfies predicates 1-6; a row on the inclusive boundaries
\* (100 miles, 86400 seconds, year 2015 or 2024) is retained, and the rows of
\* 2014, of 2025, of distance 0 and of duration 0 are removed.
C1_CleanedRowsSatisfyPredicates ==
    \A c \in Categories :
        CleanReturned(c) =>
            /\ db[Trips(c)].present
            /\ \A k \in 1..Len(RowsOf(c)) : Predicates1to6(RowsOf(c)[k])
            /\ \A r \in {RowG, RowH} : r \in Range(RowsAtStart(c)) => r \in Range(RowsOf(c))
            /\ \A r \in {Row2014, Row2025, RowZeroDistance, RowZ} : r \notin Range(RowsOf(c))

C1_Witness ==
    \E c \in Categories :
        /\ CleanReturned(c)
        /\ \E r \in {Row2014, Row2025, RowZeroDistance, RowZ} : RowsAtStart(c) = <<RowG, r>>
        /\ RowsOf(c) = <<RowG>>

\* C2: the cleaned table holds each distinct row value of the source that
\* satisfies predicates 1-6 exactly once and no other row; the end-to-end
\* scenario table (A, B, C, D, and E twice) is left with exactly one row.
C2_CleanedIsDistinctValidRows ==
    \A c \in Categories :
        CleanReturned(c) =>
            /\ Range(RowsOf(c)) = {r \in Range(RowsAtStart(c)) : Predicates1to6(r)}
            /\ Cardinality(Range(RowsOf(c))) = Len(RowsOf(c))
            /\ RowsAtStart(c) = ScenarioTable => Len(RowsOf(c)) = 1

C2_Witness ==
    \E c \in Categories :
        /\ CleanReturned(c)
        /\ RowsAtStart(c) = ScenarioTable
        /\ RowsOf(c) = <<RowE>>

\* the replace sequence of clean_<c>_trips: CREATE ... _temp, DROP, RENAME
ReplaceSteps == {"clean_create", "clean_drop", "clean_rename"}

\* C3: when the replace sequence fails or is interrupted at any of its
\* steps, the table under the original name still exists and holds the
\* complete pre-cleaning rows.
C3_FailedReplaceKeepsOriginal ==
    (script = "none" /\ last.script = "clean" /\ last.result = "failed" /\ last.pc \in ReplaceSteps)
        => /\ db[Trips(last.cat)].present
           /\ RowsOf(last.cat) = RowsAtStart(last.cat)

\* C4: between any two statements of clean_<c>_trips a reader finds the
\* table under its name, holding the complete original rows or the complete
\* cleaned rows.
C4_ReaderFindsOriginalOrCleaned ==
    (script = "clean" /\ pc \in {"clean_count", "clean_final"} \cup ReplaceSteps)
        => /\ db[Trips(cat)].present
           /\ \/ RowsOf(cat) = RowsAtStart(cat)
              \/ /\ Range(RowsOf(cat)) = {r \in Range(RowsAtStart(cat)) : Predicates1to6(r)}
                 /\ Cardinality(Range(RowsOf(cat))) = Len(RowsOf(cat))

(***************************************************************************)
(* Properties of transform.py                                              *)
(***************************************************************************)
\* transform_<c>_trips has returned in the running, or last, transform.py
TransformReturned(c) ==
    \/ script = "transform" /\ (pc = "verify_transformations" \/ (c = "yellow" /\ cat = "green"))
    \/ script = "none" /\ last.script = "transform"
         /\ (last.result = "completed" \/ last.pc = "verify_transformations" \/ (c = "yellow" /\ last.cat = "green"))
\* transform_<c>_trips has just returned: count still holds its final count
TransformJustReturned(c) ==
    script = "transform"
      /\ \/ c = "yellow" /\ cat = "green" /\ pc = "add_columns"
         \/ c = "green" /\ pc = "verify_transformations"
\* the for loop of transform_<c>_trips has ended
LoopEnded(c) ==
    \/ script = "transform" /\ cat = c /\ pc = "count_transformed"
    \/ TransformReturned(c)

AllDerived(r) == \A j \in 1..Len(DerivedColumns(r)) : ~IsNull(DerivedColumns(r)[j])
NoDerived(r) == \A j \in 1..Len(DerivedColumns(r)) : IsNull(DerivedColumns(r)[j])
CleanTable(rows) ==
    /\ \A k \in 1..Len(rows) : Predicates1to6(rows[k])
    /\ \A j, k \in 1..Len(rows) : j # k => SourceColumns(rows[j]) # SourceColumns(rows[k])
UniqueRate(c) == Cardinality(RateEntries(vehicle_emissions, c)) = 1
TheRate(c) == CHOOSE e \in RateEntries(vehicle_emissions, c) : TRUE
\* how many UPDATEs of the running (or last) transform.py wrote row k
UpdateCount(c, k) == Cardinality({j \in 1..Len(updates[c]) : k \in updates[c][j].written})
\* the number of chunks: the least m with m * size >= n
Chunks(n, size) == CHOOSE m \in 0..n : m * size >= n /\ (m = 0 \/ (m - 1) * size < n)
\* chunk j (from 1) as row positions: rowids [(j-1)*size, min(j*size, n))
ChunkRows(n, size, j) == {k \in 1..n : (j - 1) * size < k /\ k <= j * size}
\* the table an uninterrupted transformation of these rows produces
Transformed(rows, c) ==
    [k \in 1..Len(rows) |-> SetDerived(rows[k], TheRate(c), ieee_floating_point_ops)]
\* some rows carry derived values and some do not
PartlyTransformed(rows) ==
    /\ \E k \in 1..Len(rows) : AllDerived(rows[k])
    /\ \E k \in 1..Len(rows) : NoDerived(rows[k])

\* C5: when the loop has ended on a table of N rows with batch size C, it has
\* issued ceil(N/C) UPDATEs, the j-th on rows [(j-1)*C, min(j*C, N)); every
\* row lies in exactly one window, no window is empty, and for N = 0 no
\* UPDATE is issued.
C5_WindowsPartitionTable ==
    \A c \in Categories :
        LoopEnded(c) =>
            LET n == Len(RowsOf(c))
                w == updates[c]
            IN  /\ Len(w) = Chunks(n, batch_size)
                /\ \A j \in 1..Len(w) : w[j].window = ChunkRows(n, batch_size, j) /\ w[j].window # {}
                /\ \A k \in 1..n : Cardinality({j \in 1..Len(w) : k \in w[j].window}) = 1
                /\ n = 0 => w = <<>>

C5_Witness ==
    \E c \in Categories :
        /\ LoopEnded(c)
        /\ Len(RowsOf(c)) = 5 /\ batch_size = 2
        /\ Len(updates[c]) = 3
        /\ updates[c][3].window = {5}

\* C6: when transform_<c>_trips has returned on a cleaned table whose
\* category has exactly one rate entry, exactly one UPDATE wrote each row,
\* all six derived columns of every row are non-null, and the reported count
\* is the row count; a table that has no derived columns yet has no derived
\* value in any row.
C6_EveryRowTransformedOnce ==
    /\ \A c \in Categories :
          (TransformReturned(c) /\ CleanTable(RowsOf(c)) /\ UniqueRate(c)) =>
              /\ \A k \in 1..Len(RowsOf(c)) : UpdateCount(c, k) = 1 /\ AllDerived(RowsOf(c)[k])
              /\ TransformJustReturned(c) => count = Len(RowsOf(c))
    /\ \A n \in TableNames :
          ~db[n].derived => \A k \in 1..Len(db[n].rows) : NoDerived(db[n].rows[k])

C6_Witness ==
    \E c \in Categories :
        /\ TransformJustReturned(c) /\ CleanTable(RowsOf(c)) /\ UniqueRate(c)
        /\ Len(RowsOf(c)) = 3 /\ batch_size = 2 /\ count = 3
        /\ \A k \in 1..3 : NoDerived(RowsAtStart(c)[k]) /\ AllDerived(RowsOf(c)[k])

\* the UPDATE of chunk k (from 0) of transform_<c>_trips raised
FailedAtChunk(c, k) ==
    /\ script = "none" /\ last.script = "transform" /\ last.result = "failed"
    /\ last.pc = "update_batch" /\ last.cat = c /\ last.i = k

\* C7: when the UPDATE of chunk k fails in the first transformation of a
\* table, the rows of chunks 0..k-1 carry their derived values (all six
\* non-null for a row that passes the quality filter), the rows of chunk k
\* and later have none, and the row count and the source columns are as
\* before.
C7_FailureLeavesPrefixTransformed ==
    \A c \in Categories :
        (/\ script = "none" /\ FailedAtChunk(c, last.i) /\ UniqueRate(c)
         /\ \A p \in 1..Len(RowsAtStart(c)) : NoDerived(RowsAtStart(c)[p])) =>
            /\ Len(RowsOf(c)) = Len(RowsAtStart(c))
            /\ \A p \in 1..Len(RowsOf(c)) :
                  /\ SourceColumns(RowsOf(c)[p]) = SourceColumns(RowsAtStart(c)[p])
                  /\ p <= last.i * batch_size =>
                        /\ RowsOf(c)[p] = Transformed(RowsAtStart(c), c)[p]
                        /\ Predicates1to6(RowsOf(c)[p]) => AllDerived(RowsOf(c)[p])
                  /\ p > last.i * batch_size => NoDerived(RowsOf(c)[p])

C7_Witness ==
    \E c \in Categories :
        /\ FailedAtChunk(c, 1) /\ batch_size = 1
        /\ Len(RowsOf(c)) = 3
        /\ \A p \in 1..3 : NoDerived(RowsAtStart(c)[p])
        /\ AllDerived(RowsOf(c)[1]) /\ NoDerived(RowsOf(c)[2]) /\ NoDerived(RowsOf(c)[3])

\* C8: when transform_<c>_trips has returned in a run that started on a
\* partly transformed table (a run that failed partway came before), the
\* table equals, row by row and column by column, the table an
\* uninterrupted transformation produces.
C8_RerunEqualsUninterruptedRun ==
    \A c \in Categories :
        (TransformReturned(c) /\ PartlyTransformed(RowsAtStart(c)) /\ UniqueRate(c)) =>
            RowsOf(c) = Transformed(RowsAtStart(c), c)

C8_Witness ==
    \E c \in Categories :
        /\ TransformReturned(c) /\ PartlyTransformed(RowsAtStart(c)) /\ UniqueRate(c)
        /\ Len(RowsOf(c)) = 3
        /\ \A k \in 1..3 : AllDerived(RowsOf(c)[k])

\* a step that executes one UPDATE of the transformation loop
IsUpdateStep == Len(updates'[cat]) = Len(updates[cat]) + 1
\* C9 (as claimed): a re-run executes UPDATEs only for chunks whose derived
\* columns are still null: no UPDATE is executed on a window that holds a
\* row already transformed.
C9_RerunSkipsTransformedChunks ==
    [][(IsUpdateStep /\ PartlyTransformed(RowsAtStart(cat))) =>
          \A k \in updates'[cat][Len(updates'[cat])].window : NoDerived(RowsOf(cat)[k])]_vars

\* C9 (amended): a re-run after a partial failure executes the UPDATE of
\* every chunk again, from offset 0: every row, also one that was already
\* transformed when the re-run started, is written by exactly one UPDATE of
\* the re-run, and an already transformed row keeps the derived values it had.
C9_RerunUpdatesEveryChunkAgain ==
    \A c \in Categories :
        (TransformReturned(c) /\ PartlyTransformed(RowsAtStart(c)) /\ UniqueRate(c)) =>
            /\ Len(updates[c]) = Chunks(Len(RowsOf(c)), batch_size)
            /\ \A k \in 1..Len(RowsOf(c)) :
                  /\ UpdateCount(c, k) = 1
                  /\ AllDerived(RowsAtStart(c)[k]) =>
                        DerivedColumns(RowsOf(c)[k]) = DerivedColumns(RowsAtStart(c)[k])

C9_Witness ==
    \E c \in Categories :
        /\ TransformReturned(c) /\ PartlyTransformed(RowsAtStart(c))
        /\ batch_size = 1 /\ Len(RowsOf(c)) = 2
        /\ AllDerived(RowsAtStart(c)[1]) /\ NoDerived(RowsAtStart(c)[2])
        /\ UpdateCount(c, 1) = 1 /\ UpdateCount(c, 2) = 1

\* every row of the table has its six derived values
FullyTransformed(t) == t.present /\ t.derived /\ \A k \in 1..Len(t.rows) : AllDerived(t.rows[k])

\* C10: when transform_<c>_trips has returned in a run that started on a
\* fully transformed table, the table is what it was when the run started:
\* the same rows with the same six derived values.
C10_RerunChangesNothing ==
    \A c \in Categories :
        (TransformReturned(c) /\ FullyTransformed(at_start[Trips(c)]) /\ UniqueRate(c)) =>
            db[Trips(c)] = at_start[Trips(c)]

C10_Witness ==
    \E c \in Categories :
        /\ TransformReturned(c) /\ FullyTransformed(at_start[Trips(c)])
        /\ Len(RowsOf(c)) = 3 /\ batch_size = 2
        /\ Len(updates[c]) = 2
        /\ db[Trips(c)] = at_start[Trips(c)]

(***************************************************************************)
(* Properties of the verifiers                                             *)
(***************************************************************************)
\* a call of verify_cleaning / verify_transformations has ended by itself:
\* it returned, or it raised the TypeError of its own report lines
VerifierEnded(f) ==
    script = "none" /\ last.pc = f /\ last.result \in {"completed", "type_error"}
\* every derived value of the table is present and every hour_of_day is in [0, 23]
DerivedInRange(rows) ==
    \A k \in 1..Len(rows) :
        AllDerived(rows[k]) /\ rows[k].hour_of_day[1] >= 0 /\ rows[k].hour_of_day[1] <= 23
\* the six named violation counts of a verify_cleaning report are all zero
NoViolationCounted(checks) ==
    /\ checks.zero_passengers = 0 /\ checks.zero_distance = 0 /\ checks.over_100_miles = 0
    /\ checks.over_24_hours = 0 /\ checks.duplicates = 0 /\ checks.outside_years = 0

\* C11: a verifier's result is true if and only if every named violation
\* count is zero and every derived value is present with hour_of_day in
\* [0, 23]; one non-zero count, one null derived value or one hour outside
\* [0, 23], in either category, makes the result false.
C11_CleanIffNoViolation ==
    /\ VerifierEnded("verify_cleaning") =>
          report.returned = Val(\A c \in Categories : NoViolationCounted(report.checks[c]))
    /\ VerifierEnded("verify_transformations") =>
          report.returned = Val(\A c \in Categories : DerivedInRange(RowsOf(c)))

\* some row of the table violates one of predicates 1-6, or two rows are equal
HasViolation(rows) ==
    \/ \E k \in 1..Len(rows) : ~Predicates1to6(rows[k])
    \/ \E j, k \in 1..Len(rows) : j # k /\ rows[j] = rows[k]

\* C12: when verify_cleaning has run on a table in which some row violates
\* one of predicates 1-6 or an exact duplicate row exists, at least one
\* violation count of that table is >= 1 and the verifier returns not clean.
C12_VerifierDetectsEveryViolation ==
    VerifierEnded("verify_cleaning") =>
        \A c \in Categories :
            HasViolation(RowsOf(c)) =>
                /\ Violations(report.checks[c]) >= 1
                /\ report.returned = Val(FALSE)

\* the table of the category holds what cleaning leaves of the loaded table
CleanedFromSource(c) ==
    /\ CleanTable(RowsOf(c))
    /\ {SourceColumns(r) : r \in Range(RowsOf(c))}
         = {SourceColumns(r) : r \in {x \in Range(source[Trips(c)].rows) : Predicates1to6(x)}}
NonEmptySources == \A c \in Categories : Len(source[Trips(c)].rows) > 0

\* C13: for non-empty loaded tables, when clean.py has run to its end its
\* verifier reports every violation count zero and clean = true, and when
\* transform.py has then run through its verifier, that verifier reports
\* clean = true as well.
C13_PipelineVerifiesClean ==
    NonEmptySources =>
        /\ (script = "none" /\ last.script = "clean" /\ last.result = "completed") =>
              /\ report.returned = Val(TRUE)
              /\ \A c \in Categories : NoViolationCounted(report.checks[c])
        /\ (VerifierEnded("verify_transformations") /\ \A c \in Categories : CleanedFromSource(c)) =>
              report.returned = Val(TRUE)

\* a correctly cleaned and transformed table in which trip_distance has been
\* set to 0 in exactly one row
CorruptedInOneRow(rows, c) ==
    \E k \in 1..Len(rows) :
        /\ rows[k].trip_distance = Val(0)
        /\ \E d \in 1..MaxTripDistance :
              LET original == [rows EXCEPT ![k].trip_distance = Val(d)]
              IN  CleanTable(original) /\ original = Transformed(original, c)
CorrectlyTransformed(rows, c) == CleanTable(rows) /\ rows = Transformed(rows, c)

\* C14: when verify_cleaning has run on correctly cleaned and transformed
\* tables in one of which trip_distance was set to 0 in exactly one row, the
\* zero-distance count of that table is >= 1, every other count of both
\* tables is 0, and the result is false.
C14_OneCorruptRowFlipsOneCheck ==
    VerifierEnded("verify_cleaning") =>
        \A c \in Categories :
            (CorruptedInOneRow(RowsOf(c), c) /\ CorrectlyTransformed(RowsOf(Other(c)), Other(c))) =>
                /\ report.checks[c].zero_distance >= 1
                /\ ViolationsWithoutDistance(report.checks[c]) = 0
                /\ NoViolationCounted(report.checks[Other(c)])
                /\ report.returned = Val(FALSE)

C14_Witness ==
    \E c \in Categories :
        /\ VerifierEnded("verify_cleaning")
        /\ Len(RowsOf(c)) = 2 /\ CorruptedInOneRow(RowsOf(c), c)
        /\ CorrectlyTransformed(RowsOf(Other(c)), Other(c))
        /\ report.checks[c].zero_distance = 1
        /\ report.returned = Val(FALSE)

\* C15: a call of verify_cleaning or verify_transformations on tables in any
\* state (an empty table and a table whose derived columns are all NULL
\* included) ends by returning a boolean; it never raises.
C15_VerifiersReturnBoolean ==
    \A f \in {"verify_cleaning", "verify_transformations"} :
        VerifierEnded(f) => (last.result = "completed" /\ report.returned \in {Val(TRUE), Val(FALSE)})

(***************************************************************************)
(* Properties of the rate table lookup                                     *)
(***************************************************************************)
\* C16: when vehicle_emissions has no entry for a category, the
\* transformation of that category does not return normally: it ends with
\* an error and not with every row's derived columns left NULL.
C16_MissingRateFails ==
    \A c \in Categories :
        RateEntries(vehicle_emissions, c) = {} => ~TransformReturned(c)

\* C17: when vehicle_emissions holds two or more entries for a category, the
\* transformation of that category is aborted: no row of its table gets a
\* trip_co2_kgs computed from one of the entries.
C17_DuplicateRateAborts ==
    \A c \in Categories :
        Cardinality(RateEntries(vehicle_emissions, c)) >= 2 =>
            /\ ~TransformReturned(c)
            /\ \A k \in 1..Len(RowsOf(c)) : IsNull(RowsOf(c)[k].trip_co2_kgs)

(***************************************************************************)
(* Properties of the order of the phases                                   *)
(***************************************************************************)
\* the script failed inside clean_<c>_trips / transform_<c>_trips
FailedIn(c) ==
    /\ script = "none" /\ last.result = "failed" /\ last.cat = c
    /\ last.pc \notin {"verify_cleaning", "verify_transformations"}

\* C18: when a statement of one category's cleaning or transformation
\* raises, only that category is aborted: the same phase of the other
\* category has still run to completion when the script has ended.
C18_FailureAbortsOnlyItsCategory ==
    \A c \in Categories :
        FailedIn(c) =>
            IF last.script = "clean" THEN CleanReturned(Other(c)) ELSE TransformReturned(Other(c))

\* every UPDATE of the loop of transform_<c>_trips has been executed
TransformationCompleted(c) ==
    /\ db[Trips(c)].present /\ db[Trips(c)].derived
    /\ Len(updates[c]) = Chunks(Len(RowsOf(c)), batch_size)
\* the replace sequence of clean_<c>_trips has been executed on the table
\* the script started with
CleaningCompleted(c) ==
    /\ db[Trips(c)].present /\ ~db[TripsTemp(c)].present
    /\ Range(RowsOf(c)) = {r \in Range(RowsAtStart(c)) : Predicates1to6(r)}
    /\ Cardinality(Range(RowsOf(c))) = Len(RowsOf(c))
\* transform_<c>_trips is running
Transforming(c) ==
    script = "transform" /\ cat = c /\ pc \in {"add_columns", "count_rows", "update_batch", "count_transformed"}

ZeroDuration(r) == EpochDiff(r.dropoff_datetime, r.pickup_datetime) = Val(0)

\* C20: every row of zero duration that an UPDATE of the loop has written
\* holds NULL in avg_mph and its five other derived values; the UPDATE does
\* not fail.
C20_ZeroDurationStoresNull ==
    \A c \in Categories :
        \A k \in 1..Len(RowsOf(c)) :
            (UpdateCount(c, k) >= 1 /\ ZeroDuration(RowsOf(c)[k])) =>
                /\ IsNull(RowsOf(c)[k].avg_mph)
                /\ ~IsNull(RowsOf(c)[k].trip_co2_kgs)
                /\ ~IsNull(RowsOf(c)[k].hour_of_day) /\ ~IsNull(RowsOf(c)[k].day_of_week)
                /\ ~IsNull(RowsOf(c)[k].week_of_year) /\ ~IsNull(RowsOf(c)[k].month_of_year)

(***************************************************************************)
(* Properties of the derived values                                        *)
(***************************************************************************)
\* the grams per mile that vehicle_emissions holds for the table's own category
OwnRates(c) ==
    {e.co2_grams_per_mile[1] :
        e \in {x \in Range(vehicle_emissions) :
                  x.vehicle_type = (IF c = "yellow" THEN "yellow_taxi" ELSE "green_taxi")}}

\* C21: every row that holds a trip_co2_kgs holds (trip_distance x rate) / 1000
\* for the rate of the table's own category; 10 miles at 400 grams per mile
\* is 4.
C21_Co2FromOwnCategoryRate ==
    \A c \in Categories :
        \A k \in 1..Len(RowsOf(c)) :
            LET r == RowsOf(c)[k]
                v == r.trip_co2_kgs
            IN  ~IsNull(v) =>
                    \E g \in OwnRates(c) :
                        /\ v[1][2] > 0
                        /\ v[1][1] * 1000 = r.trip_distance[1] * g * v[1][2]
                        /\ (r.trip_distance = Val(10) /\ g = 400) => v = Val(<<4, 1>>)

C21_Witness ==
    /\ \E k \in 1..Len(RowsOf("yellow")) :
          /\ UpdateCount("yellow", k) = 1
          /\ RowsOf("yellow")[k].trip_distance = Val(10)
          /\ RowsOf("yellow")[k].trip_co2_kgs = Val(<<4, 1>>)
    /\ \E k \in 1..Len(RowsOf("green")) :
          /\ UpdateCount("green", k) = 1
          /\ RowsOf("green")[k].trip_distance = Val(10)
          /\ RowsOf("green")[k].trip_co2_kgs = Val(<<3, 1>>)

\* the four calendar values of a row
CalendarColumns(r) == <<r.hour_of_day, r.day_of_week, r.week_of_year, r.month_of_year>>
\* an UPDATE of the running (or last) transform.py wrote the row
Written(c, k) == UpdateCount(c, k) >= 1

InLoop == script = "transform" /\ pc \in {"update_batch", "count_transformed"}

\* C23: in the loop of one category the UPDATEs are issued one at a time in
\* strictly increasing offset order 0, C, 2C, ...: after i passes exactly
\* the chunks 1..i have been updated, each once, the j-th on the window at
\* offset (j-1)*C, the progress lines carry the indices 1..i of the same
\* total, and when the loop has ended every index 1..total has been used.
C23_ChunksInOffsetOrder ==
    InLoop =>
        /\ Len(progress) = i /\ Len(updates[cat]) = i /\ i <= batches
        /\ pc = "count_transformed" => i = batches
        /\ pc = "update_batch" => i < batches
        /\ \A j \in 1..i :
              /\ progress[j].batch = j
              /\ progress[j].of = batches
              /\ progress[j].offset = (j - 1) * batch_size
              /\ updates[cat][j].window = ChunkRows(total_rows, batch_size, j)
              /\ updates[cat][j].written = updates[cat][j].window
        /\ \A j \in 1..i : \A k \in 1..i :
              j < k => /\ progress[j].offset < progress[k].offset
                       /\ updates[cat][j].window \cap updates[cat][k].window = {}
                       /\ \A x \in updates[cat][j].window : \A y \in updates[cat][k].window : x < y

C23_Witness ==
    /\ script = "transform" /\ pc = "count_transformed"
    /\ batch_size = 2 /\ total_rows = 5
    /\ Len(progress) = 3
    /\ progress[3] = [batch |-> 3, of |-> 3, offset |-> 4]
    /\ updates[cat][1].window = {1, 2} /\ updates[cat][3].window = {5}

\* transform.py is running, or has ended, on a table whose rows had no
\* derived value when it started
FirstRun(c) ==
    /\ script = "transform" \/ (script = "none" /\ last.script = "transform")
    /\ at_start[Trips(c)].present /\ db[Trips(c)].present
    /\ \A p \in 1..Len(RowsAtStart(c)) : NoDerived(RowsAtStart(c)[p])
\* the rows of chunks 1..k
Prefix(n, size, k) == UNION {ChunkRows(n, size, j) : j \in 1..k}

\* C24: in every state of a first transformation of a table, every row holds
\* all six derived values or none, every chunk's rows are all transformed
\* or all untransformed, and the transformed rows are the rows of the chunks
\* 1..k for some k.
C24_TransformedRowsAreChunkPrefix ==
    \A c \in Categories :
        FirstRun(c) =>
            LET rows == RowsOf(c)
                n    == Len(rows)
                done == {p \in 1..n : ~NoDerived(rows[p])}
            IN  /\ \A p \in 1..n : AllDerived(rows[p]) \/ NoDerived(rows[p])
                /\ \A j \in 1..Chunks(n, batch_size) :
                      \/ ChunkRows(n, batch_size, j) \subseteq done
                      \/ ChunkRows(n, batch_size, j) \cap done = {}
                /\ \E k \in 0..Chunks(n, batch_size) : done = Prefix(n, batch_size, k)
                /\ (cat = c /\ InLoop) => done = Prefix(n, batch_size, i)

C24_Witness ==
    \E c \in Categories :
        /\ FirstRun(c) /\ cat = c /\ script = "transform" /\ pc = "update_batch"
        /\ batch_size = 2 /\ Len(RowsOf(c)) = 5 /\ i = 1
        /\ AllDerived(RowsOf(c)[1]) /\ AllDerived(RowsOf(c)[2])
        /\ \A p \in 3..5 : NoDerived(RowsOf(c)[p])

\* the rows of table t have the same count and the same source columns in
\* the next state
SourceKept(t) ==
    /\ db'[t].present = db[t].present
    /\ Len(db'[t].rows) = Len(db[t].rows)
    /\ \A p \in 1..Len(db[t].rows) : SourceColumns(db'[t].rows[p]) = SourceColumns(db[t].rows[p])

\* C25: every step of transform.py taken while it transforms category cat
\* leaves the row count and the source columns of every row of <cat>_trips
\* as they are, and leaves every other table and vehicle_emissions unchanged.
C25_TransformChangesOnlyDerivedColumns ==
    [][script = "transform" =>
          /\ SourceKept(Trips(cat))
          /\ \A t \in TableNames \ {Trips(cat)} : db'[t] = db[t]
          /\ vehicle_emissions' = vehicle_emissions]_vars

\* both functions have returned: the derived columns of both tables have
\* changed, the source columns and row counts have not
C25_Witness ==
    /\ script = "transform" /\ pc = "verify_transformations"
    /\ vehicle_emissions = GoodRates
    /\ \A c \in Categories :
          /\ Len(RowsOf(c)) = 2 /\ Len(RowsAtStart(c)) = 2
          /\ \A p \in 1..2 :
                /\ SourceColumns(RowsOf(c)[p]) = SourceColumns(RowsAtStart(c)[p])
                /\ NoDerived(RowsAtStart(c)[p]) /\ AllDerived(RowsOf(c)[p])

\* a verifier is running
Verifying == script # "none" /\ pc \in {"verify_cleaning", "verify_transformations"}

\* C26: every step of verify_cleaning and of verify_transformations, also
\* one that raises, leaves every table and vehicle_emissions as they are:
\* the tables after the call are the tables before it.
C26_VerifiersAreReadOnly ==
    [][Verifying => db' = db /\ vehicle_emissions' = vehicle_emissions]_vars

\* verify_cleaning has returned false on tables with rows, which are as
\* they were before the call
C26_Witness ==
    /\ VerifierEnded("verify_cleaning") /\ last.result = "completed"
    /\ report.by = "verify_cleaning" /\ report.returned = Val(FALSE)
    /\ db = at_start
    /\ \A c \in Categories : db[Trips(c)].present /\ Len(RowsOf(c)) >= 1
    /\ \E c \in Categories : db[Trips(c)].derived /\ Len(RowsOf(c)) = 3

====
